---------------------------- MODULE Spec2Model ----------------------------
(***************************************************************************)
(* A model of the .pac archive reader (src/ExPac.py) and of the .grd image *)
(* decoder (src/Grd2Png.py).                                               *)
(*                                                                         *)
(* Files are sequences of bytes (1-based in TLA+, so the byte at file      *)
(* offset o is f[o + 1]).  Strings are sequences of code points.  Every    *)
(* function of the source that can raise is modelled with its raising      *)
(* outcome: a run ends with result "none" (the function returned None),    *)
(* "raise" (an exception left the function) or a value.                    *)
(***************************************************************************)
EXTENDS Integers, Sequences, FiniteSets, TLC

VARIABLES
    pc,            \* the part of the function that runs, or ran last
    result,        \* "running", then how the function ended: "none" (it
                   \* returned None), "raise" (an exception left it), or the
                   \* kind of value it returned
    \* ---- ExPac.try_open
    file_path,     \* the path handed to try_open
    view,          \* ArcView: the bytes of the file; max_offset is Len(view)
    count, name_length, data_offset, version, index_offset, i,
    dir_entries,   \* the list built by try_open
    arc_name,
    \* ---- Grd2Png.read_grd_metadata
    grd_file,      \* the bytes of the file at file_path
    info,          \* the GrdMetaData it returns
    \* ---- Grd2Png.GrdReader.unpack_huffman
    huff,          \* the call's frame: stream, node table, priority list, ...
    \* ---- Grd2Png.GrdReader.unpack_lz77
    lz,            \* the call's frame: input_data, output, special, src, dst, ...
    \* ---- Grd2Png.process_directory, convert_grd_to_png, GrdReader
    batch,         \* the .grd files os.walk yields, in its order
    file_index,    \* how many of them have been gone through
    reader,        \* the GrdReader of the file being converted
    saved,         \* the images saved so far
    \* ---- ExPac.open_entry
    entry_view,    \* ArcView: the bytes of the archive
    script_entry,  \* the Entry handed to open_entry
    extracted      \* what the calls of open_entry returned, in order

pacVars == <<file_path, view, count, name_length, data_offset, version,
             index_offset, i, dir_entries, arc_name>>

metaVars == <<grd_file, info>>

grdVars == <<batch, file_index, reader, saved>>

scriptVars == <<entry_view, script_entry, extracted>>

vars == <<pc, result, pacVars, metaVars, huff, lz, grdVars, scriptVars>>

LzIdle == lz = <<>>
GrdIdle == batch = <<>> /\ file_index = 0 /\ reader = <<>> /\ saved = <<>>
ScriptIdle == entry_view = <<>> /\ script_entry = <<>> /\ extracted = <<>>

(***************************************************************************)
(* Bounds of the model.                                                    *)
(***************************************************************************)
MaxCount == 2          \* index records per archive
MaxBody == 4           \* bytes after the header of a .grd file (metadata runs)
MaxTable == 7          \* frequency tables FreqTable(0) .. FreqTable(MaxTable)
MaxUnpacked == 2       \* decoded size of a Huffman stream

(***************************************************************************)
(* Integer helpers: Python's &, |, >>, << on non-negative integers.        *)
(***************************************************************************)
RECURSIVE BitAnd(_, _)
BitAnd(a, b) ==
    IF a = 0 \/ b = 0 THEN 0
    ELSE (a % 2) * (b % 2) + 2 * BitAnd(a \div 2, b \div 2)

RECURSIVE BitOr(_, _)
BitOr(a, b) ==
    IF a = 0 THEN b
    ELSE IF b = 0 THEN a
    ELSE (IF a % 2 = 1 \/ b % 2 = 1 THEN 1 ELSE 0) + 2 * BitOr(a \div 2, b \div 2)

ShiftRight(a, n) == a \div (2 ^ n)
ShiftLeft(a, n) == a * (2 ^ n)

Min(a, b) == IF a < b THEN a ELSE b
Max(a, b) == IF a < b THEN b ELSE a

(***************************************************************************)
(* struct.unpack of little-endian integers.                                *)
(***************************************************************************)
RECURSIVE LittleEndian(_)
LittleEndian(bs) ==
    IF bs = <<>> THEN 0 ELSE Head(bs) + 256 * LittleEndian(Tail(bs))

\* "<q": eight bytes, two's complement.  A negative value is computed from
\* the complemented bytes, so small magnitudes stay within TLC's integers.
SignedLittleEndian(bs) ==
    IF bs[Len(bs)] >= 128
    THEN -(LittleEndian([k \in 1..Len(bs) |-> 255 - bs[k]]) + 1)
    ELSE LittleEndian(bs)

(***************************************************************************)
(* ArcView: seek, then read.  file.read returns the bytes there are (fewer *)
(* than asked at the end of the file); struct.unpack raises on a short     *)
(* buffer and seek raises on a negative offset.                            *)
(***************************************************************************)
read_bytes(f, offset, size) ==
    SubSeq(f, offset + 1, Min(offset + size, Len(f)))

CanRead(f, offset, size) == offset >= 0 /\ offset + size <= Len(f)

read_int16(f, offset) == SignedLittleEndian(read_bytes(f, offset, 2))
read_byte(f, offset) == LittleEndian(read_bytes(f, offset, 1))
read_uint32(f, offset) == LittleEndian(read_bytes(f, offset, 4))
read_int64(f, offset) == SignedLittleEndian(read_bytes(f, offset, 8))

\* bytes.decode('utf-8'): the code points, or ok = FALSE (UnicodeDecodeError).
RECURSIVE Utf8Decode(_)
Utf8Decode(bs) ==
    IF bs = <<>> THEN [ok |-> TRUE, s |-> <<>>]
    ELSE
      LET b0 == bs[1]
          n == IF b0 < 128 THEN 1
               ELSE IF b0 \in 194..223 THEN 2
               ELSE IF b0 \in 224..239 THEN 3
               ELSE IF b0 \in 240..244 THEN 4
               ELSE 0
          Cont(k) == k <= Len(bs) /\ bs[k] \in 128..191
          valid ==
              CASE n = 1 -> TRUE
                [] n = 2 -> Cont(2)
                [] n = 3 -> /\ Cont(2) /\ Cont(3)
                            /\ (b0 = 224 => bs[2] >= 160)
                            /\ (b0 = 237 => bs[2] <= 159)
                [] n = 4 -> /\ Cont(2) /\ Cont(3) /\ Cont(4)
                            /\ (b0 = 240 => bs[2] >= 144)
                            /\ (b0 = 244 => bs[2] <= 143)
                [] OTHER -> FALSE
          cp ==
              CASE n = 1 -> b0
                [] n = 2 -> (b0 - 192) * 64 + (bs[2] - 128)
                [] n = 3 -> (b0 - 224) * 4096 + (bs[2] - 128) * 64 + (bs[3] - 128)
                [] OTHER -> (b0 - 240) * 262144 + (bs[2] - 128) * 4096
                            + (bs[3] - 128) * 64 + (bs[4] - 128)
      IN IF ~valid THEN [ok |-> FALSE, s |-> <<>>]
         ELSE LET rest == Utf8Decode(SubSeq(bs, n + 1, Len(bs)))
              IN [ok |-> rest.ok, s |-> <<cp>> \o rest.s]

\* str.rstrip('\x00')
RECURSIVE RStripNul(_)
RStripNul(s) ==
    IF s # <<>> /\ s[Len(s)] = 0 THEN RStripNul(SubSeq(s, 1, Len(s) - 1)) ELSE s

\* ArcView.read_string
read_string(f, offset, length) ==
    LET d == Utf8Decode(read_bytes(f, offset, length))
    IN [ok |-> d.ok, s |-> RStripNul(d.s)]

(***************************************************************************)
(* os.path (POSIX) and str helpers used by try_open.                       *)
(***************************************************************************)
\* str.rfind, 1-based; 0 when the character does not occur.
LastIndexOf(s, c) ==
    IF \E k \in 1..Len(s) : s[k] = c
    THEN CHOOSE k \in 1..Len(s) : s[k] = c /\ \A j \in (k + 1)..Len(s) : s[j] # c
    ELSE 0

\* os.path.splitext(p)[0]: the extension starts at the last dot of the last
\* path component, unless only dots precede it there.
SplitExtRoot(p) ==
    LET sepIndex == LastIndexOf(p, 47)
        dotIndex == LastIndexOf(p, 46)
    IN IF dotIndex > sepIndex /\ \E k \in (sepIndex + 1)..(dotIndex - 1) : p[k] # 46
       THEN SubSeq(p, 1, dotIndex - 1)
       ELSE p

\* os.path.basename
Basename(p) == SubSeq(p, LastIndexOf(p, 47) + 1, Len(p))

\* str.lower, on the ASCII letters
Lower(s) == [k \in 1..Len(s) |-> IF s[k] \in 65..90 THEN s[k] + 32 ELSE s[k]]

\* needle in s
Contains(s, needle) ==
    \E k \in 1..(Len(s) - Len(needle) + 1) : SubSeq(s, k, k + Len(needle) - 1) = needle

ExtOgg == <<46, 111, 103, 103>>     \* ".ogg"
ExtGrd == <<46, 103, 114, 100>>     \* ".grd"
ExtSrp == <<46, 115, 114, 112>>     \* ".srp"
StrGrd == <<103, 114, 100>>         \* "grd"
StrSrp == <<115, 114, 112>>         \* "srp"

\* line 87
ArcName(path) == Lower(SplitExtRoot(Basename(path)))

(***************************************************************************)
(* ExPac.try_open                                                          *)
(***************************************************************************)
is_sane_count(c) == 0 < c /\ c < 65536

check_placement(entry, max_offset) == entry.offset + entry.size <= max_offset

\* lines 60-66: 1 or 2, or 0 when the archive is rejected
DetectVersionLenient(offset, nlen, cnt) ==
    IF offset = 7 + (nlen + 8) * cnt THEN 1 ELSE 2

DetectVersion(offset, nlen, cnt) ==
    LET index_size == 7 + (nlen + 8) * cnt
    IN IF offset = index_size THEN 1
       ELSE IF offset = index_size + 4 * cnt THEN 2
       ELSE 0

\* lines 49-66: the header checks, in the order of the code
Header(f) ==
    LET none == [status |-> "none", count |-> 0, name_length |-> 0,
                 data_offset |-> 0, version |-> 0]
        raise == [none EXCEPT !.status = "raise"]
    IN IF ~CanRead(f, 0, 2) THEN raise
       ELSE IF ~is_sane_count(read_int16(f, 0)) THEN none
       ELSE IF ~CanRead(f, 2, 1) THEN raise
       ELSE IF read_byte(f, 2) = 0 THEN none
       ELSE IF ~CanRead(f, 3, 4) THEN raise
       ELSE IF read_uint32(f, 3) >= Len(f) THEN none
       ELSE LET v == DetectVersion(read_uint32(f, 3), read_byte(f, 2), read_int16(f, 0))
            IN IF v = 0 THEN none
               ELSE [status |-> "ok", count |-> read_int16(f, 0),
                     name_length |-> read_byte(f, 2),
                     data_offset |-> read_uint32(f, 3), version |-> v]

\* lines 71-82: one index record read at index_offset
EntryAt(f, offset, nlen, ver, base) ==
    LET name == read_string(f, offset, nlen)
        at == offset + nlen
        width == IF ver = 1 THEN 8 ELSE 12
    IN IF ~name.ok \/ ~CanRead(f, at, width)
       THEN [ok |-> FALSE, entry |-> [name |-> <<>>, offset |-> 0, size |-> 0, type |-> ""],
             next |-> at]
       ELSE [ok |-> TRUE,
             entry |-> [name |-> name.s,
                        offset |-> (IF ver = 1 THEN read_uint32(f, at)
                                    ELSE read_int64(f, at)) + base,
                        size |-> IF ver = 1 THEN read_uint32(f, at + 4)
                                 ELSE read_uint32(f, at + 8),
                        type |-> ""],
             next |-> at + width]

\* line 90: 'OggS' read as a little-endian u32
IsOggBigEndian(signature) == signature = 1332176723

IsOgg(signature) == signature = 1399285583

\* line 93
IsGrd(signature, arc) ==
    (BitAnd(signature, 255) = 1 \/ BitAnd(signature, 255) = 2) /\ Contains(arc, StrGrd)

\* lines 89-101: the rules applied to one entry; ok = FALSE when a read raises
Sniff(f, arc, entry) ==
    LET raise == [ok |-> FALSE, entry |-> entry]
        done(e) == [ok |-> TRUE, entry |-> e]
        signature == read_uint32(f, entry.offset)
        low == BitAnd(signature, 255)
    IN IF ~CanRead(f, entry.offset, 4) THEN raise
       ELSE IF IsOgg(signature)
         THEN done([entry EXCEPT !.name = SplitExtRoot(entry.name) \o ExtOgg,
                                 !.type = "audio"])
       ELSE IF IsGrd(signature, arc)
         THEN done([entry EXCEPT !.name = SplitExtRoot(entry.name) \o ExtGrd,
                                 !.type = "image"])
       ELSE IF low = 68 /\ ~CanRead(f, entry.offset + 5, 4) THEN raise
       ELSE IF low = 68 /\ entry.size - 9 = read_uint32(f, entry.offset + 5)
         THEN done([entry EXCEPT !.type = "audio"])
       ELSE IF ~CanRead(f, entry.offset + 4, 2) THEN raise
       ELSE IF read_int16(f, entry.offset + 4) # 6 THEN done(entry)
       ELSE IF ~CanRead(f, entry.offset + 6, 4) THEN raise
       ELSE IF read_uint32(f, entry.offset + 6) # 1310800 THEN done(entry)
       ELSE done([entry EXCEPT !.type = "script",
                               !.name = IF arc = StrSrp
                                        THEN SplitExtRoot(entry.name) \o ExtSrp
                                        ELSE entry.name])

\* lines 48-69
TryOpenHeader ==
    /\ pc = "open" /\ result = "running"
    /\ LET h == Header(view)
       IN /\ count' = h.count
          /\ name_length' = h.name_length
          /\ data_offset' = h.data_offset
          /\ version' = h.version
          /\ IF h.status = "ok"
             THEN pc' = "index" /\ result' = result
             ELSE pc' = pc /\ result' = h.status
    /\ index_offset' = 7
    /\ i' = 0
    /\ dir_entries' = <<>>
    /\ UNCHANGED <<file_path, view, arc_name, metaVars, huff, lz, grdVars, scriptVars>>

\* lines 70-87: one iteration of the index loop
ParseEntry ==
    /\ pc = "index" /\ result = "running"
    /\ i < count
    /\ LET r == EntryAt(view, index_offset, name_length, version, data_offset)
       IN IF ~r.ok
          THEN /\ pc' = pc /\ result' = "raise"
               /\ UNCHANGED <<index_offset, i, dir_entries, arc_name>>
          ELSE IF ~check_placement(r.entry, Len(view))
          THEN /\ pc' = pc /\ result' = "none"
               /\ index_offset' = r.next
               /\ UNCHANGED <<i, dir_entries, arc_name>>
          ELSE /\ dir_entries' = Append(dir_entries, r.entry)
               /\ index_offset' = r.next
               /\ IF i + 1 < count
                  THEN i' = i + 1 /\ pc' = pc /\ arc_name' = arc_name
                  ELSE i' = 0 /\ pc' = "sniff" /\ arc_name' = ArcName(file_path)
               /\ result' = result
    /\ UNCHANGED <<file_path, view, count, name_length, data_offset, version, metaVars, huff, lz, grdVars, scriptVars>>

\* lines 88-103: one iteration of the sniffing loop
SniffEntry ==
    /\ pc = "sniff" /\ result = "running"
    /\ i < Len(dir_entries)
    /\ LET r == Sniff(view, arc_name, dir_entries[i + 1])
       IN IF ~r.ok
          THEN /\ pc' = pc /\ result' = "raise"
               /\ UNCHANGED <<i, dir_entries>>
          ELSE /\ dir_entries' = [dir_entries EXCEPT ![i + 1] = r.entry]
               /\ i' = i + 1
               /\ pc' = pc
               /\ result' = IF i + 1 < Len(dir_entries) THEN result ELSE "list"
    /\ UNCHANGED <<file_path, view, count, name_length, data_offset, version,
                   index_offset, arc_name, metaVars, huff, lz, grdVars, scriptVars>>

(***************************************************************************)
(* ExPac.open_entry                                                        *)
(***************************************************************************)
\* line 120 without the mask
NibbleSwapNoMask(b) == BitOr(ShiftRight(b, 4), ShiftLeft(b, 4))

\* line 120
NibbleSwap(b) == BitOr(ShiftRight(b, 4), ShiftLeft(BitAnd(b, 15), 4))

\* lines 112-122: the loop over the records from record i on, pos being the
\* position in data
RECURSIVE ChunkLoop(_, _, _, _)
ChunkLoop(data, pos, n, record_count) ==
    IF n >= record_count \/ pos + 2 > Len(data) THEN data
    ELSE LET chunk_size == LittleEndian(SubSeq(data, pos + 1, pos + 2)) - 4
             at == pos + 6
         IN IF at + chunk_size > Len(data) THEN data
            ELSE ChunkLoop([k \in 1..Len(data) |->
                               IF k > at /\ k <= at + chunk_size
                               THEN NibbleSwap(data[k]) ELSE data[k]],
                           at + Max(chunk_size, 0), n + 1, record_count)

\* lines 105-122; struct.unpack raises when the file ends inside a field
open_entry(f, e) ==
    IF e.type # "script" THEN [status |-> "bytes", data |-> read_bytes(f, e.offset, e.size)]
    ELSE IF ~CanRead(f, e.offset + 4, 2) THEN [status |-> "raise", data |-> << >>]
    ELSE IF read_int16(f, e.offset + 4) # 6
    THEN [status |-> "bytes", data |-> read_bytes(f, e.offset, e.size)]
    ELSE IF ~CanRead(f, e.offset + 6, 4) THEN [status |-> "raise", data |-> << >>]
    ELSE IF read_uint32(f, e.offset + 6) # 1310800
    THEN [status |-> "bytes", data |-> read_bytes(f, e.offset, e.size)]
    ELSE [status |-> "bytes",
          data |-> ChunkLoop(read_bytes(f, e.offset, e.size), 4, 0,
                             read_uint32(f, e.offset))]

\* lines 145-149 of main: the entry is extracted from the archive
ExtractEntry ==
    /\ pc = "extract" /\ result = "running"
    /\ extracted = << >>
    /\ LET r == open_entry(entry_view, script_entry)
       IN IF r.status = "raise"
          THEN result' = "raise" /\ UNCHANGED extracted
          ELSE extracted' = <<r.data>> /\ UNCHANGED result
    /\ UNCHANGED <<pc, entry_view, script_entry, pacVars, metaVars, huff, lz, grdVars>>

\* the same of an archive that holds the extracted bytes as an entry of the
\* same kind
ExtractAgain ==
    /\ pc = "extract" /\ result = "running"
    /\ Len(extracted) = 1
    /\ LET r == open_entry(extracted[1],
                           [script_entry EXCEPT !.offset = 0, !.size = Len(extracted[1])])
       IN IF r.status = "raise"
          THEN result' = "raise" /\ UNCHANGED extracted
          ELSE extracted' = Append(extracted, r.data) /\ result' = "bytes"
    /\ UNCHANGED <<pc, entry_view, script_entry, pacVars, metaVars, huff, lz, grdVars>>

(***************************************************************************)
(* Grd2Png.read_grd_metadata                                               *)
(***************************************************************************)
\* GrdMetaData.__init__
NewGrdMetaData ==
    [Format |-> 0, Width |-> 0, Height |-> 0, BPP |-> 0, OffsetX |-> 0,
     OffsetY |-> 0, AlphaSize |-> 0, RSize |-> 0, GSize |-> 0, BSize |-> 0]

Abs(x) == IF x < 0 THEN -x ELSE x

\* struct.unpack('<H', header[a:a+2]) and ('<I', header[a:a+4])
U16(header, a) == LittleEndian(SubSeq(header, a + 1, a + 2))
U32(header, a) == LittleEndian(SubSeq(header, a + 1, a + 4))

\* The checks in the order of the code.  header[k] raises IndexError and
\* struct.unpack raises struct.error when the file ends before the field.
read_grd_metadata(f) ==
    LET header == SubSeq(f, 1, Min(32, Len(f)))
        none == [status |-> "none", info |-> NewGrdMetaData]
        raise == [status |-> "raise", info |-> NewGrdMetaData]
    IN IF Len(header) < 1 THEN raise
       ELSE IF header[1] \notin {1, 2} THEN none
       ELSE IF Len(header) < 2 THEN raise
       ELSE IF header[2] \notin {1, 161, 162} THEN none
       ELSE IF Len(header) < 8 THEN raise
       ELSE IF U16(header, 6) \notin {24, 32} THEN none
       ELSE IF Len(header) < 32 THEN raise
       ELSE
         LET left == U16(header, 8)
             right == U16(header, 10)
             top == U16(header, 12)
             bottom == U16(header, 14)
             screen_height == U16(header, 4)
             got == [Format |-> U16(header, 0),
                     Width |-> Abs(right - left),
                     Height |-> Abs(bottom - top),
                     BPP |-> U16(header, 6),
                     OffsetX |-> left,
                     OffsetY |-> screen_height - bottom,
                     AlphaSize |-> U32(header, 16),
                     RSize |-> U32(header, 20),
                     GSize |-> U32(header, 24),
                     BSize |-> U32(header, 28)]
         IN IF 32 + got.AlphaSize + got.RSize + got.BSize + got.GSize # Len(f)
            THEN none
            ELSE [status |-> "info", info |-> got]

\* lines 170-195
ReadMetadata ==
    /\ pc = "meta" /\ result = "running"
    /\ LET r == read_grd_metadata(grd_file)
       IN result' = r.status /\ info' = r.info
    /\ UNCHANGED <<pc, grd_file, pacVars, huff, lz, grdVars, scriptVars>>

MetaIdle == grd_file = <<>> /\ info = NewGrdMetaData

(***************************************************************************)
(* Grd2Png.GrdReader.unpack_huffman, create_huffman_tree, add_node and     *)
(* LsbBitStream.  The node table holds 0x200 nodes; node n is at n + 1 of  *)
(* the sequences freq, left and right.                                     *)
(***************************************************************************)
NodeCount == 512
LeafCount == 256
RootNode == 510
MaxLeaf == 255

Zeros(n) == [k \in 1..n |-> 0]

\* the smallest element of a non-empty set of integers
Least(S) == CHOOSE x \in S : \A y \in S : x <= y

\* add_node: before the first node of greater frequency, else at the end
add_node_before_equal(tree, freq, index) ==
    LET later == {k \in 1..Len(tree) : freq[tree[k] + 1] >= freq[index + 1]}
    IN IF later = {} THEN Append(tree, index)
       ELSE SubSeq(tree, 1, Least(later) - 1) \o <<index>>
            \o SubSeq(tree, Least(later), Len(tree))

add_node(tree, freq, index) ==
    LET later == {k \in 1..Len(tree) : freq[tree[k] + 1] > freq[index + 1]}
    IN IF later = {} THEN Append(tree, index)
       ELSE SubSeq(tree, 1, Least(later) - 1) \o <<index>>
            \o SubSeq(tree, Least(later), Len(tree))

\* the frame of unpack_huffman(input_stream) when it is called, the stream
\* being at position pos
NewHuffman(stream, pos) ==
    [stream |-> stream, pos |-> pos,
     freq |-> Zeros(NodeCount), left |-> Zeros(NodeCount), right |-> Zeros(NodeCount),
     tree |-> <<>>, last_node |-> 0, index |-> 0,
     huffman_unpacked |-> 0, unpacked |-> <<>>, dst |-> 0, node |-> 0,
     current_byte |-> 0, bit_position |-> 8, bits_read |-> 0,
     pc |-> "header", status |-> "running"]

\* lines 119-122: the decoded size, and four bytes that are skipped
HuffHeader(h) ==
    IF h.pos + 4 > Len(h.stream) THEN [h EXCEPT !.status = "raise"]
    ELSE [h EXCEPT !.huffman_unpacked = LittleEndian(SubSeq(h.stream, h.pos + 1, h.pos + 4)),
                   !.pos = Min(h.pos + 8, Len(h.stream)),
                   !.pc = "seed"]

\* lines 124-128: one iteration of the loop over the 0x100 leaves
HuffSeed(h) ==
    IF h.pos + 4 > Len(h.stream) THEN [h EXCEPT !.status = "raise"]
    ELSE LET freq == [h.freq EXCEPT ![h.index + 1] =
                         LittleEndian(SubSeq(h.stream, h.pos + 1, h.pos + 4))]
         IN [h EXCEPT !.freq = freq,
                      !.tree = add_node(h.tree, freq, h.index),
                      !.pos = h.pos + 4,
                      !.index = h.index + 1,
                      !.last_node = IF h.index + 1 < LeafCount THEN 0 ELSE LeafCount,
                      !.pc = IF h.index + 1 < LeafCount THEN "seed" ELSE "merge"]

\* the node unpack_huffman starts every walk from (line 108)
StartNode(h) == RootNode

\* line 109
IsAboveRoot(node) == node > RootNode

IsInternal(node) == node > MaxLeaf

\* lines 129-138 and 104-106: one iteration of the merge loop; when one node
\* is left the table is returned and unpack_huffman sets up its output and
\* its bit stream
HuffMerge(h) ==
    IF Len(h.tree) > 1
    THEN LET l == h.tree[1]
             r == h.tree[2]
             freq == [h.freq EXCEPT ![h.last_node + 1] = h.freq[l + 1] + h.freq[r + 1]]
         IN [h EXCEPT !.freq = freq,
                      !.left = [h.left EXCEPT ![h.last_node + 1] = l],
                      !.right = [h.right EXCEPT ![h.last_node + 1] = r],
                      !.tree = add_node(SubSeq(h.tree, 3, Len(h.tree)), freq, h.last_node),
                      !.last_node = h.last_node + 1]
    ELSE [h EXCEPT !.unpacked = Zeros(h.huffman_unpacked),
                   !.current_byte = 0, !.bit_position = 8,
                   !.dst = 0,
                   !.pc = "symbol"]

\* lines 107-108 and 116
HuffSymbol(h) ==
    IF h.dst < h.huffman_unpacked
    THEN [h EXCEPT !.node = StartNode(h), !.pc = "walk"]
    ELSE [h EXCEPT !.status = "done"]

\* LsbBitStream.get_next_bit, and lines 110-113: one bit, one step down
HuffWalk(h) ==
    IF h.bit_position = 8 /\ h.pos >= Len(h.stream) THEN [h EXCEPT !.status = "raise"]
    ELSE LET byte == IF h.bit_position = 8 THEN h.stream[h.pos + 1] ELSE h.current_byte
             bit == BitAnd(byte, 1)
         IN [h EXCEPT !.pos = IF h.bit_position = 8 THEN h.pos + 1 ELSE h.pos,
                      !.current_byte = ShiftRight(byte, 1),
                      !.bit_position = (IF h.bit_position = 8 THEN 0 ELSE h.bit_position) + 1,
                      !.bits_read = h.bits_read + 1,
                      !.node = IF bit # 0 THEN h.right[h.node + 1] ELSE h.left[h.node + 1]]

\* lines 114-115
HuffEmit(h) ==
    [h EXCEPT !.unpacked = [h.unpacked EXCEPT ![h.dst + 1] = h.node],
              !.dst = h.dst + 1,
              !.pc = "symbol"]

HuffIdle == huff = <<>>

HuffRunning(at) == pc = "huffman" /\ huff.status = "running" /\ huff.pc = at

ReadHuffmanHeader ==
    /\ HuffRunning("header")
    /\ huff' = HuffHeader(huff)
    /\ UNCHANGED <<pc, result, pacVars, metaVars, lz, grdVars, scriptVars>>

SeedLeaf ==
    /\ HuffRunning("seed")
    /\ huff' = HuffSeed(huff)
    /\ UNCHANGED <<pc, result, pacVars, metaVars, lz, grdVars, scriptVars>>

MergeNodes ==
    /\ HuffRunning("merge")
    /\ huff' = HuffMerge(huff)
    /\ UNCHANGED <<pc, result, pacVars, metaVars, lz, grdVars, scriptVars>>

StartSymbol ==
    /\ HuffRunning("symbol")
    /\ huff' = HuffSymbol(huff)
    /\ UNCHANGED <<pc, result, pacVars, metaVars, lz, grdVars, scriptVars>>

WalkBit ==
    /\ HuffRunning("walk") /\ IsInternal(huff.node)
    /\ huff' = HuffWalk(huff)
    /\ UNCHANGED <<pc, result, pacVars, metaVars, lz, grdVars, scriptVars>>

EmitByte ==
    /\ HuffRunning("walk") /\ ~IsInternal(huff.node)
    /\ huff' = HuffEmit(huff)
    /\ UNCHANGED <<pc, result, pacVars, metaVars, lz, grdVars, scriptVars>>

(***************************************************************************)
(* Grd2Png.GrdReader.unpack_lz77(input_data, output).  output is the       *)
(* reader's channel buffer, written in place.  last tells what the last    *)
(* iteration of the while loop met, ref_dst where the output stood when it *)
(* met a back-reference and ref_offset the offset byte of that reference.  *)
(***************************************************************************)
NewLz(input_data, output) ==
    [input_data |-> input_data, output |-> output,
     special |-> 0, src |-> 0, dst |-> 0, offset |-> 0, count |-> 0, i |-> 0,
     last |-> "none", ref_dst |-> 0, ref_offset |-> 0,
     pc |-> "begin", status |-> "running"]

\* lines 78-80
LzBegin(z) ==
    IF Len(z.input_data) <= 8 THEN [z EXCEPT !.status = "raise"]
    ELSE [z EXCEPT !.special = z.input_data[9], !.src = 12, !.dst = 0, !.pc = "loop"]

\* lines 90-91
KeepOffset(offset, special) == offset

AdjustOffset(offset, special) == IF offset > special THEN offset - 1 ELSE offset

\* lines 81-89 and 95-100: the head of one iteration of the while loop, up to
\* the literal it stores or the back-reference it has read
LzFetch(z) ==
    IF z.dst >= Len(z.output) THEN [z EXCEPT !.status = "done"]
    ELSE IF z.src >= Len(z.input_data) THEN [z EXCEPT !.status = "raise"]
    ELSE LET b == z.input_data[z.src + 1]
         IN IF b # z.special
            THEN [z EXCEPT !.output = [z.output EXCEPT ![z.dst + 1] = b],
                           !.src = z.src + 1, !.dst = z.dst + 1, !.last = "literal"]
            ELSE IF z.src + 1 >= Len(z.input_data)
                 THEN [z EXCEPT !.src = z.src + 1, !.status = "raise"]
            ELSE LET offset == z.input_data[z.src + 2]
                 IN IF offset = z.special
                    THEN [z EXCEPT !.output = [z.output EXCEPT ![z.dst + 1] = offset],
                                   !.src = z.src + 2, !.dst = z.dst + 1,
                                   !.offset = offset, !.last = "escaped"]
                    ELSE IF z.src + 2 >= Len(z.input_data)
                         THEN [z EXCEPT !.src = z.src + 2, !.offset = offset,
                                        !.status = "raise"]
                    ELSE LET n == z.input_data[z.src + 3]
                         IN [z EXCEPT !.src = z.src + 3,
                                      !.offset = AdjustOffset(offset, z.special),
                                      !.count = n, !.i = 0,
                                      !.last = "reference", !.ref_dst = z.dst,
                                      !.ref_offset = offset,
                                      !.pc = IF n > 0 THEN "copy" ELSE "loop"]

\* lines 92-94: one iteration of the copy loop; a negative index counts from
\* the end of the buffer
LzCopy(z) ==
    LET from == z.dst - z.offset
        at == IF from < 0 THEN from + Len(z.output) ELSE from
    IN IF at < 0 \/ z.dst >= Len(z.output) THEN [z EXCEPT !.status = "raise"]
       ELSE [z EXCEPT !.output = [z.output EXCEPT ![z.dst + 1] = z.output[at + 1]],
                      !.dst = z.dst + 1,
                      !.i = z.i + 1,
                      !.pc = IF z.i + 1 < z.count THEN "copy" ELSE "loop"]

LzRunning(at) == pc = "lz" /\ lz.status = "running" /\ lz.pc = at

ReadEscapeByte ==
    /\ LzRunning("begin")
    /\ lz' = LzBegin(lz)
    /\ UNCHANGED <<pc, result, pacVars, metaVars, huff, grdVars, scriptVars>>

FetchByte ==
    /\ LzRunning("loop")
    /\ lz' = LzFetch(lz)
    /\ UNCHANGED <<pc, result, pacVars, metaVars, huff, grdVars, scriptVars>>

CopyByte ==
    /\ LzRunning("copy")
    /\ lz' = LzCopy(lz)
    /\ UNCHANGED <<pc, result, pacVars, metaVars, huff, grdVars, scriptVars>>

(***************************************************************************)
(* Grd2Png.GrdReader: __init__, unpack, unpack_channel, unpack_rle, and    *)
(* convert_grd_to_png and process_directory that drive it.                 *)
(***************************************************************************)
\* bytearray slice assignment buf[dst:dst+n] = seq: the slice is clamped to
\* the buffer, and the buffer grows or shrinks when Len(seq) is not its size
SliceAssign(buf, dst, n, seq) ==
    SubSeq(buf, 1, Min(dst, Len(buf))) \o seq
    \o SubSeq(buf, Min(dst + n, Len(buf)) + 1, Len(buf))

\* line 66
RunLength(n) == BitAnd(n, 127)

\* lines 62-74: the while loop of unpack_rle, the stream being at pos.
\* read(1)[0] raises IndexError at the end of the stream; read(n) returns
\* what is left
RECURSIVE RleLoop(_, _, _, _, _, _)
RleLoop(stream, pos, src, dst, src_size, channel) ==
    IF src >= src_size THEN [status |-> "done", channel |-> channel]
    ELSE IF pos >= Len(stream) THEN [status |-> "raise", channel |-> channel]
    ELSE LET n == stream[pos + 1]
         IN IF n > 127
            THEN IF pos + 1 >= Len(stream)
                 THEN [status |-> "raise", channel |-> channel]
                 ELSE LET run == RunLength(n)
                          v == stream[pos + 2]
                      IN RleLoop(stream, pos + 2, src + 2, dst + run, src_size,
                                 SliceAssign(channel, dst, run, [k \in 1..run |-> v]))
            ELSE IF n > 0
            THEN LET got == SubSeq(stream, pos + 2, Min(pos + 1 + n, Len(stream)))
                 IN RleLoop(stream, pos + 1 + Len(got), src + 1 + n, dst + n, src_size,
                            SliceAssign(channel, dst, n, got))
            ELSE RleLoop(stream, pos + 1, src + 1, dst, src_size, channel)

\* lines 59-61
unpack_rle(stream, pos, src_size, channel) ==
    RleLoop(stream, pos, 0, 0, src_size, channel)

\* lines 52-53
SameRow(y, height) == y

FlippedRow(y, height) == height - 1 - y

\* lines 52-57: the channel buffer is copied bottom row first to every
\* pixel_size-th byte of the output from dst on; channel[src] raises
\* IndexError when the buffer has become shorter than Width * Height
Interleave(output, channel, dst, width, height, pixel_size) ==
    IF width * height > Len(channel)
    THEN [status |-> "raise", output |-> output]
    ELSE [status |-> "done",
          output |-> [j \in 1..Len(output) |->
                        LET k == (j - 1 - dst) \div pixel_size
                        IN IF j - 1 >= dst /\ (j - 1 - dst) % pixel_size = 0
                              /\ k < width * height
                           THEN channel[FlippedRow(k \div width, height) * width
                                        + (k % width) + 1]
                           ELSE output[j]]]

\* lines 29-38: the calls of unpack_channel that unpack makes, in order
UnpackCalls(nfo) ==
    LET alpha == nfo.BPP = 32 /\ nfo.AlphaSize > 0
        red == 32 + (IF alpha THEN nfo.AlphaSize ELSE 0)
    IN (IF alpha THEN << [dst |-> 3, src_pos |-> 32, src_size |-> nfo.AlphaSize] >>
        ELSE << >>)
       \o << [dst |-> 0, src_pos |-> red, src_size |-> nfo.RSize],
             [dst |-> 1, src_pos |-> red + nfo.RSize, src_size |-> nfo.GSize],
             [dst |-> 2, src_pos |-> red + nfo.RSize + nfo.GSize, src_size |-> nfo.BSize] >>

\* lines 21-27, and the calls unpack has still to make; unpacked lists the
\* dst of the calls that returned
NewReader(nfo) ==
    [output |-> Zeros(nfo.Width * nfo.Height * (nfo.BPP \div 8)),
     channel |-> Zeros(nfo.Width * nfo.Height),
     pack_type |-> ShiftRight(nfo.Format, 8),
     pixel_size |-> nfo.BPP \div 8,
     calls |-> UnpackCalls(nfo),
     unpacked |-> << >>]

\* lines 52-57 on the channel buffer a decoder left, then the return of
\* unpack_channel
Interleaved(channel) ==
    LET call == Head(reader.calls)
        r == Interleave(reader.output, channel, call.dst, info.Width, info.Height,
                        reader.pixel_size)
    IN [status |-> r.status,
        reader |-> [reader EXCEPT !.output = r.output, !.channel = channel,
                                  !.calls = Tail(reader.calls),
                                  !.unpacked = Append(reader.unpacked, call.dst)]]

\* lines 207-212
Mode(nfo) == IF nfo.BPP = 24 THEN "RGB" ELSE IF nfo.AlphaSize > 0 THEN "RGBA" ELSE "RGB"

GrdRunning(at) == pc = at /\ result = "running" /\ reader # << >>

\* lines 221-228 and 197-204: the next file of the walk; a file without
\* metadata is reported and left, an exception ends the walk
ConvertFile ==
    /\ pc = "convert" /\ result = "running"
    /\ file_index < Len(batch)
    /\ LET f == batch[file_index + 1].file
           r == read_grd_metadata(f)
       IN /\ grd_file' = f
          /\ info' = r.info
          /\ CASE r.status = "raise" ->
                    /\ result' = "raise"
                    /\ UNCHANGED <<pc, file_index, reader>>
               [] r.status = "none" ->
                    /\ file_index' = file_index + 1
                    /\ UNCHANGED <<pc, result, reader>>
               [] OTHER ->
                    /\ reader' = NewReader(r.info)
                    /\ pc' = "channel"
                    /\ UNCHANGED <<result, file_index>>
    /\ UNCHANGED <<batch, saved, pacVars, huff, lz, scriptVars>>

\* line 221: the walk is over
EndWalk ==
    /\ pc = "convert" /\ result = "running"
    /\ file_index = Len(batch)
    /\ result' = "done"
    /\ UNCHANGED <<pc, pacVars, metaVars, huff, lz, grdVars, scriptVars>>

\* lines 41-44 and 52-57: a channel of pack type 1
UnpackRleChannel ==
    /\ GrdRunning("channel") /\ reader.calls # << >>
    /\ reader.pack_type = 1
    /\ LET call == Head(reader.calls)
           rle == unpack_rle(grd_file, call.src_pos, call.src_size, reader.channel)
           r == Interleaved(rle.channel)
       IN IF rle.status = "raise" \/ r.status = "raise"
          THEN result' = "raise" /\ UNCHANGED reader
          ELSE reader' = r.reader /\ UNCHANGED result
    /\ UNCHANGED <<pc, batch, file_index, saved, pacVars, metaVars, huff, lz, scriptVars>>

\* lines 41 and 46: a channel of another pack type goes through
\* unpack_huffman first
UnpackHuffmanChannel ==
    /\ GrdRunning("channel") /\ reader.calls # << >>
    /\ reader.pack_type # 1
    /\ huff' = NewHuffman(grd_file, Head(reader.calls).src_pos)
    /\ pc' = "huffman"
    /\ UNCHANGED <<result, pacVars, metaVars, lz, grdVars, scriptVars>>

\* line 46: an exception of unpack_huffman leaves unpack
HuffmanRaised ==
    /\ GrdRunning("huffman") /\ huff.status = "raise"
    /\ result' = "raise"
    /\ UNCHANGED <<pc, pacVars, metaVars, huff, lz, grdVars, scriptVars>>

\* line 48: an exception of unpack_lz77 leaves unpack
Lz77Raised ==
    /\ GrdRunning("lz") /\ lz.status = "raise"
    /\ result' = "raise"
    /\ UNCHANGED <<pc, pacVars, metaVars, huff, lz, grdVars, scriptVars>>

\* lines 49-50 and 52-57: pack type 0xA1, the decoded bytes are RLE
UnpackRleData ==
    /\ GrdRunning("huffman") /\ huff.status = "done"
    /\ reader.pack_type # 162
    /\ LET data == huff.unpacked
           rle == unpack_rle(data, 0, Len(data), reader.channel)
           r == Interleaved(rle.channel)
       IN IF rle.status = "raise" \/ r.status = "raise"
          THEN result' = "raise" /\ UNCHANGED <<pc, reader>>
          ELSE reader' = r.reader /\ pc' = "channel" /\ UNCHANGED result
    /\ UNCHANGED <<batch, file_index, saved, pacVars, metaVars, huff, lz, scriptVars>>

\* lines 47-48: pack type 0xA2, the decoded bytes are LZ77
UnpackLz77Data ==
    /\ GrdRunning("huffman") /\ huff.status = "done"
    /\ reader.pack_type = 162
    /\ lz' = NewLz(huff.unpacked, reader.channel)
    /\ pc' = "lz"
    /\ UNCHANGED <<result, pacVars, metaVars, huff, grdVars, scriptVars>>

\* lines 52-57 after unpack_lz77 returned
InterleaveLz77 ==
    /\ GrdRunning("lz") /\ lz.status = "done"
    /\ LET r == Interleaved(lz.output)
       IN IF r.status = "raise"
          THEN result' = "raise" /\ UNCHANGED <<pc, reader>>
          ELSE reader' = r.reader /\ pc' = "channel" /\ UNCHANGED result
    /\ UNCHANGED <<batch, file_index, saved, pacVars, metaVars, huff, lz, scriptVars>>

\* lines 207-215 and 229: unpack returned; the output buffer goes to
\* Image.frombytes and the image is saved
SaveImage ==
    /\ GrdRunning("channel") /\ reader.calls = << >>
    /\ saved' = Append(saved, [file |-> file_index + 1, mode |-> Mode(info),
                               width |-> info.Width, height |-> info.Height,
                               data |-> reader.output,
                               unpacked |-> reader.unpacked])
    /\ file_index' = file_index + 1
    /\ reader' = << >>
    /\ pc' = "convert"
    /\ UNCHANGED <<result, batch, pacVars, metaVars, huff, lz, scriptVars>>

(***************************************************************************)
(* The archives try_open is run on.  MkPac lays an archive out as the      *)
(* reader expects it: u16 count, u8 name length, u32 data offset, then per *)
(* record the name and (layout 1) u32 offset, u32 size or (layout 2) i64   *)
(* offset, u32 size, then the payload bytes.                               *)
(***************************************************************************)
RECURSIVE LEBytes(_, _)
LEBytes(v, n) == IF n = 0 THEN <<>> ELSE <<v % 256>> \o LEBytes(v \div 256, n - 1)

\* two's complement on eight bytes
LE64(v) ==
    IF v >= 0 THEN LEBytes(v, 8)
    ELSE [k \in 1..8 |-> 255 - LEBytes(-v - 1, 8)[k]]

RECURSIVE Concat(_)
Concat(ss) == IF ss = <<>> THEN <<>> ELSE Head(ss) \o Concat(Tail(ss))

IndexSize(layout, nlen, cnt) == 7 + (nlen + (IF layout = 1 THEN 8 ELSE 12)) * cnt

IndexRecord(layout, rec) ==
    rec.name \o (IF layout = 1 THEN LEBytes(rec.rel, 4) ELSE LE64(rec.rel))
             \o LEBytes(rec.size, 4)

MkPac(cnt, nlen, offset, recs, layout, payload) ==
    LEBytes(cnt, 2) \o <<nlen>> \o LEBytes(offset, 4)
    \o Concat([k \in 1..Len(recs) |-> IndexRecord(layout, recs[k])])
    \o payload

NameTest == <<116, 101, 115, 116>>      \* "test"
NameAB == <<97, 46, 98, 0>>             \* "a.b" and a NUL
NameDotX == <<46, 120, 0, 0>>           \* ".x" and two NULs
NameBad == <<255, 97, 98, 99>>          \* not UTF-8

\* the index records: name, stored (relative) offset, size
RecordChoices(layout) ==
    { [name |-> NameTest, rel |-> 0, size |-> 4],
      [name |-> NameAB, rel |-> 0, size |-> 12],
      [name |-> NameDotX, rel |-> 4, size |-> 8],
      [name |-> NameTest, rel |-> 0, size |-> 200],   \* past the end of the file
      [name |-> NameBad, rel |-> 0, size |-> 4],
      [name |-> NameTest, rel |-> 12, size |-> 0],    \* empty, at the end of the file
      [name |-> NameBad, rel |-> 4, size |-> 200] }
    \cup (IF layout = 2
          THEN { [name |-> NameAB, rel |-> -1000, size |-> 4] }  \* before the file
          ELSE {})

\* the payload area: twelve bytes
Payloads ==
    { <<79, 103, 103, 83, 0, 0, 0, 0, 0, 0, 0, 0>>,     \* OggS
      <<79, 103, 103, 83, 6, 0, 80, 0, 20, 0, 0, 0>>,   \* OggS, and the script mark
      <<1, 0, 0, 0, 6, 0, 80, 0, 20, 0, 0, 0>>,         \* low byte 1, and the script mark
      <<2, 0, 0, 0, 0, 0, 0, 0, 0, 0, 0, 0>>,           \* low byte 2
      <<68, 0, 0, 0, 0, 3, 0, 0, 0, 0, 0, 0>>,          \* 0x44, u32 at +5 is 3
      <<0, 0, 0, 0, 6, 0, 80, 0, 20, 0, 0, 0>>,         \* the script mark
      <<0, 0, 0, 0, 0, 0, 0, 0, 0, 0, 0, 0>> }

Paths ==
    { <<71, 82, 68, 46, 112, 97, 99>>,                     \* "GRD.pac"
      <<100, 47, 115, 114, 112, 46, 112, 97, 99>>,         \* "d/srp.pac"
      <<120, 46, 103, 114, 100, 47, 97, 46, 112, 97, 99>> }  \* "x.grd/a.pac"

RecordLists(layout) ==
    UNION { [1..n -> RecordChoices(layout)] : n \in 1..MaxCount }

\* archives whose data offset is the index size of their layout
WellFormedArchives ==
    { MkPac(Len(rs), 4, IndexSize(layout, 4, Len(rs)), rs, layout, p) :
        rs \in RecordLists(1), layout \in {1}, p \in Payloads }
    \cup
    { MkPac(Len(rs), 4, IndexSize(layout, 4, Len(rs)), rs, layout, p) :
        rs \in RecordLists(2), layout \in {2}, p \in Payloads }

\* archives the header checks turn down, and files cut inside the header
OtherArchives ==
    LET rs == << [name |-> NameTest, rel |-> 0, size |-> 4] >>
        p == <<79, 103, 103, 83, 0, 0, 0, 0, 0, 0, 0, 0>>
        whole(layout) == MkPac(1, 4, IndexSize(layout, 4, 1), rs, layout, p)
    IN { MkPac(c, 4, IndexSize(layout, 4, 1), rs, layout, p) :
           c \in {0, 32769}, layout \in 1..2 }
       \cup { MkPac(1, 0, IndexSize(layout, 4, 1), rs, layout, p) : layout \in 1..2 }
       \cup { MkPac(1, 4, IndexSize(layout, 4, 1) + d, rs, layout, p) :
                d \in {1, 2, 1000}, layout \in 1..2 }
       \cup { SubSeq(whole(1), 1, n) : n \in {0, 1, 2, 3, 6} }

Archives == WellFormedArchives \cup OtherArchives

InitPac ==
    /\ pc = "open"
    /\ result = "running"
    /\ file_path \in Paths
    /\ view \in Archives
    /\ count = 0 /\ name_length = 0 /\ data_offset = 0 /\ version = 0
    /\ index_offset = 0 /\ i = 0
    /\ dir_entries = <<>>
    /\ arc_name = <<>>
    /\ MetaIdle
    /\ HuffIdle
    /\ LzIdle /\ GrdIdle /\ ScriptIdle

NextPac == TryOpenHeader \/ ParseEntry \/ SniffEntry

SpecPac == InitPac /\ [][NextPac]_vars

(***************************************************************************)
(* Properties of try_open.  They are stated on the bytes of the file.      *)
(***************************************************************************)
HdrCount == read_int16(view, 0)
HdrNameLength == read_byte(view, 2)
HdrDataOffset == read_uint32(view, 3)
IndexSizeV1 == 7 + (HdrNameLength + 8) * HdrCount
IndexSizeV2 == IndexSizeV1 + 4 * HdrCount

\* the k-th index record (k from 1) in the layout the data offset selects
RecWidth == IF HdrDataOffset = IndexSizeV1 THEN 8 ELSE 12
RecBase(k) == 7 + (k - 1) * (HdrNameLength + RecWidth)
RecName(k) == read_string(view, RecBase(k), HdrNameLength).s
RecOffset(k) ==
    HdrDataOffset + (IF RecWidth = 8
                     THEN read_uint32(view, RecBase(k) + HdrNameLength)
                     ELSE read_int64(view, RecBase(k) + HdrNameLength))
RecSize(k) == read_uint32(view, RecBase(k) + HdrNameLength + RecWidth - 4)

\* C1: an archive accepted as version 1 has data_base_offset = index_size_v1,
\* one accepted as version 2 has data_base_offset = index_size_v2, an archive
\* whose data_base_offset is neither is rejected with None, and the index is
\* read with the record layout of the detected version only: 8 bytes after
\* the name for version 1, 12 for version 2.
C1_VersionDetection ==
    /\ version = 1 => HdrDataOffset = IndexSizeV1
    /\ version = 2 => HdrDataOffset = IndexSizeV2
    /\ (result # "running" /\ Len(view) >= 7
          /\ HdrDataOffset # IndexSizeV1 /\ HdrDataOffset # IndexSizeV2)
       => (result = "none" /\ pc = "open")
    /\ pc # "open" => version \in {1, 2}
    /\ (pc = "index" /\ result = "running")
       => index_offset = 7 + i * (HdrNameLength + RecWidth)
    /\ pc = "sniff" => index_offset = 7 + HdrCount * (HdrNameLength + RecWidth)
    /\ pc # "open"
       => \A k \in 1..Len(dir_entries) :
             /\ dir_entries[k].offset = RecOffset(k)
             /\ dir_entries[k].size = RecSize(k)

\* a version-2 archive of two records, read to the end
C1_Witness ==
    /\ version = 2 /\ pc = "sniff" /\ result = "list"
    /\ Len(dir_entries) = 2
    /\ HdrDataOffset = IndexSizeV2

\* C2: every entry of a returned index lies within the file, and an archive
\* with an index record that does not is rejected: try_open returns None.
C2_PlacementGate ==
    /\ result = "list"
       => \A k \in 1..Len(dir_entries) :
             dir_entries[k].offset + dir_entries[k].size <= Len(view)
    /\ (pc # "open" /\ result # "running"
          /\ \E k \in 1..HdrCount : RecOffset(k) + RecSize(k) > Len(view))
       => result = "none"

\* What holds of try_open on such an archive: it returns no list.
PlacementNeverListed ==
    (pc # "open" /\ \E k \in 1..HdrCount : RecOffset(k) + RecSize(k) > Len(view))
    => result # "list"

\* the entries the sniffing loop has gone through
Sniffed == IF pc # "sniff" THEN 0 ELSE IF result = "list" THEN Len(dir_entries) ELSE i

\* C7: each entry gets the first of the four rules that matches, in the
\* order OggS signature, low byte 1 or 2 with "grd" in the archive name, low
\* byte 0x44 with the u32 at +5 equal to size - 9, i16 at +4 equal to 6 with
\* the u32 at +6 equal to 0x140050.  A payload starting 4F 67 67 53 gives
\* kind audio and the extension .ogg ("test" becomes "test.ogg") whatever the
\* archive name and the later rules; an entry matching no rule keeps its
\* name and the kind "".
C7_SniffFirstMatch ==
    \A k \in 1..Sniffed :
        LET e == dir_entries[k]
            orig == RecName(k)
            root == SplitExtRoot(orig)
            b == read_bytes(view, e.offset, 10)
            rule1 == Len(b) >= 4 /\ SubSeq(b, 1, 4) = <<79, 103, 103, 83>>
            rule2 == b[1] \in {1, 2} /\ Contains(arc_name, StrGrd)
            rule3 == /\ b[1] = 68 /\ Len(b) >= 9
                     /\ e.size - 9 = LittleEndian(SubSeq(b, 6, 9))
            rule4 == Len(b) >= 10 /\ SubSeq(b, 5, 10) = <<6, 0, 80, 0, 20, 0>>
        IN /\ rule1 => (e.type = "audio" /\ e.name = root \o ExtOgg)
           /\ (rule1 /\ orig = <<116, 101, 115, 116>>)
              => e.name = <<116, 101, 115, 116, 46, 111, 103, 103>>
           /\ (rule1 /\ orig = <<97, 46, 98>>) => e.name = <<97, 46, 111, 103, 103>>
           /\ (~rule1 /\ rule2) => (e.type = "image" /\ e.name = root \o ExtGrd)
           /\ (~rule1 /\ ~rule2 /\ rule3) => (e.type = "audio" /\ e.name = orig)
           /\ (~rule1 /\ ~rule2 /\ ~rule3 /\ rule4)
              => /\ e.type = "script"
                 /\ e.name = IF arc_name = StrSrp THEN root \o ExtSrp ELSE orig
           /\ (~rule1 /\ ~rule2 /\ ~rule3 /\ ~rule4)
              => (e.type = "" /\ e.name = orig)

\* an OggS payload that also carries the script mark, in an archive named
\* "srp", beside an entry that no rule matches
C7_Witness ==
    /\ pc = "sniff" /\ result = "list"
    /\ arc_name = StrSrp
    /\ read_bytes(view, HdrDataOffset, 10) = <<79, 103, 103, 83, 6, 0, 80, 0, 20, 0>>
    /\ \E k \in 1..Len(dir_entries) :
          /\ dir_entries[k].offset = HdrDataOffset
          /\ dir_entries[k].name = <<116, 101, 115, 116, 46, 111, 103, 103>>
          /\ dir_entries[k].type = "audio"
    /\ \E k \in 1..Len(dir_entries) :
          dir_entries[k].type = "" /\ dir_entries[k].name = <<46, 120>>

(***************************************************************************)
(* The files read_grd_metadata is run on: a 32-byte header (format code,   *)
(* screen size, bits per pixel, bounding box, four channel sizes) and the  *)
(* channel bytes, and such files cut inside the header.                    *)
(***************************************************************************)
MkGrdHeader(family, pack, bpp, box, sizes) ==
    <<family, pack>> \o LEBytes(640, 2) \o LEBytes(480, 2) \o LEBytes(bpp, 2)
    \o LEBytes(box[1], 2) \o LEBytes(box[2], 2) \o LEBytes(box[3], 2) \o LEBytes(box[4], 2)
    \o LEBytes(sizes[1], 4) \o LEBytes(sizes[2], 4) \o LEBytes(sizes[3], 4)
    \o LEBytes(sizes[4], 4)

MetaHeaders ==
    { MkGrdHeader(family, pack, bpp, box, sizes) :
        family \in {0, 1, 2, 3}, pack \in {0, 1, 2, 161, 162}, bpp \in {8, 24, 32},
        box \in { <<0, 2, 0, 2>>, <<3, 1, 500, 1>> },
        sizes \in { <<0, 1, 1, 1>>, <<2, 1, 0, 1>>, <<0, 0, 0, 0>> } }

MetaFiles ==
    { h \o Zeros(n) : h \in MetaHeaders, n \in 0..MaxBody }
    \cup { SubSeq(h, 1, n) : h \in MetaHeaders, n \in {0, 1, 2, 7, 8, 15, 16, 31} }

PacIdle ==
    /\ file_path = <<>> /\ view = <<>>
    /\ count = 0 /\ name_length = 0 /\ data_offset = 0 /\ version = 0
    /\ index_offset = 0 /\ i = 0
    /\ dir_entries = <<>>
    /\ arc_name = <<>>

InitMeta ==
    /\ pc = "meta"
    /\ result = "running"
    /\ grd_file \in MetaFiles
    /\ info = NewGrdMetaData
    /\ PacIdle
    /\ HuffIdle
    /\ LzIdle /\ GrdIdle /\ ScriptIdle

NextMeta == ReadMetadata

SpecMeta == InitMeta /\ [][NextMeta]_vars

\* C3: read_grd_metadata returns metadata exactly when byte 0 is 1 or 2,
\* byte 1 is 1, 0xA1 or 0xA2, bits_per_pixel is 24 or 32 and 32 plus the four
\* channel sizes is the length of the file; in every other case it returns
\* None.
MetaAccepted ==
    /\ Len(grd_file) >= 32
    /\ grd_file[1] \in {1, 2}
    /\ grd_file[2] \in {1, 161, 162}
    /\ LittleEndian(SubSeq(grd_file, 7, 8)) \in {24, 32}
    /\ 32 + LittleEndian(SubSeq(grd_file, 17, 20)) + LittleEndian(SubSeq(grd_file, 21, 24))
          + LittleEndian(SubSeq(grd_file, 25, 28)) + LittleEndian(SubSeq(grd_file, 29, 32))
       = Len(grd_file)

C3_MetadataGate ==
    result # "running"
    => /\ MetaAccepted => result = "info"
       /\ ~MetaAccepted => result = "none"

\* What holds of read_grd_metadata: metadata is returned exactly for the
\* accepted files, and it carries the sizes whose sum is the file's length.
MetadataOnlyWhenAccepted ==
    result # "running"
    => /\ result = "info" <=> MetaAccepted
       /\ result = "info"
          => 32 + info.AlphaSize + info.RSize + info.GSize + info.BSize = Len(grd_file)
       /\ (Len(grd_file) >= 32 /\ ~MetaAccepted) => result = "none"

(***************************************************************************)
(* The streams unpack_huffman is run on: u32 decoded size, u32 packed      *)
(* size, 256 u32 frequencies, then the bits.                               *)
(***************************************************************************)
FreqTable(k) ==
    [n \in 0..MaxLeaf |->
        CASE k = 0 -> 0                                  \* all zero
          [] k = 1 -> IF n = 65 THEN 3 ELSE 0            \* one value occurs
          [] k = 2 -> IF n = 0 THEN 1 ELSE 0
          [] k = 3 -> IF n = 255 THEN 1000 ELSE 0
          [] k = 4 -> 1                                  \* all equal
          [] k = 5 -> n
          [] k = 6 -> 255 - n
          [] OTHER -> (n * k) % 11]

MkHuffmanStream(size, table, bits) ==
    LEBytes(size, 4) \o LEBytes(Len(bits), 4)
    \o [k \in 1..(4 * LeafCount) |-> LEBytes(table[(k - 1) \div 4], 4)[((k - 1) % 4) + 1]]
    \o bits

BitBytes == { <<>>, <<255>>, <<0, 165>> }

HuffmanStreams ==
    { MkHuffmanStream(size, FreqTable(k), bits) :
        size \in 0..MaxUnpacked, k \in 0..MaxTable, bits \in BitBytes }
    \cup { SubSeq(MkHuffmanStream(1, FreqTable(5), <<>>), 1, n) : n \in {2, 6, 100} }

MetaAndPacIdle == MetaIdle /\ PacIdle

InitHuff ==
    /\ pc = "huffman"
    /\ result = "running"
    /\ huff \in { NewHuffman(stream, 0) : stream \in HuffmanStreams }
    /\ MetaAndPacIdle
    /\ LzIdle /\ GrdIdle /\ ScriptIdle

NextHuff ==
    ReadHuffmanHeader \/ SeedLeaf \/ MergeNodes \/ StartSymbol \/ WalkBit \/ EmitByte

SpecHuff == InitHuff /\ [][NextHuff]_vars

(***************************************************************************)
(* Properties of create_huffman_tree and unpack_huffman.                   *)
(***************************************************************************)
\* the list is in ascending frequency order, nodes of equal frequency in the
\* order they were inserted (leaves 0..255, then the internal nodes, are
\* inserted in the order of their indices)
InPriorityOrder(tree, freq) ==
    \A k \in 1..(Len(tree) - 1) :
        \/ freq[tree[k] + 1] < freq[tree[k + 1] + 1]
        \/ freq[tree[k] + 1] = freq[tree[k + 1] + 1] /\ tree[k] < tree[k + 1]

\* the internal nodes created so far, and the children they were given
Created == LeafCount..(huff.last_node - 1)
ChildrenSoFar == {huff.left[n + 1] : n \in Created} \cup {huff.right[n + 1] : n \in Created}
InList == {huff.tree[k] : k \in 1..Len(huff.tree)}

TableBuilt == pc = "huffman" /\ huff.pc \in {"symbol", "walk"}

\* C9: create_huffman_tree makes exactly 255 merges that create the internal
\* nodes 256..510; the node left in the list is 0x1FE; every index 0..509 is
\* the left or the right child of exactly one internal node; after every
\* add_node the list is in ascending frequency order, equal frequencies in
\* insertion order; a walk from 0x1FE goes to a child of smaller index at
\* every bit and so ends at a leaf.
C9_TreeShape ==
    pc = "huffman" =>
        /\ InPriorityOrder(huff.tree, huff.freq)
        /\ huff.pc = "seed"
           => /\ huff.tree \in [1..huff.index -> 0..MaxLeaf]
              /\ InList = 0..(huff.index - 1)
        /\ huff.pc = "merge"
           => /\ huff.last_node \in LeafCount..(RootNode + 1)
              /\ Len(huff.tree) = NodeCount - huff.last_node
              /\ Cardinality(InList) = Len(huff.tree)
              /\ Cardinality(ChildrenSoFar) = 2 * (huff.last_node - LeafCount)
              /\ InList \cap ChildrenSoFar = {}
              /\ InList \cup ChildrenSoFar = 0..(huff.last_node - 1)
              /\ \A n \in Created : huff.left[n + 1] < n /\ huff.right[n + 1] < n
        /\ TableBuilt
           => /\ huff.last_node = RootNode + 1
              /\ huff.tree = <<RootNode>>
              /\ Cardinality(ChildrenSoFar) = 2 * (LeafCount - 1)
              /\ ChildrenSoFar = 0..(RootNode - 1)
              /\ \A n \in Created : huff.left[n + 1] < n /\ huff.right[n + 1] < n
        /\ huff.pc = "walk"
           => /\ huff.node \in 0..RootNode
              /\ huff.bits_read <= (huff.dst + 1) * MaxLeaf

\* the tree of a table with zero frequencies and with equal frequencies has
\* been built and a walk from the root has come to a leaf
C9_Witness ==
    /\ TableBuilt
    /\ huff.pc = "walk" /\ huff.node <= MaxLeaf /\ huff.bits_read > 0
    /\ huff.freq[1] = 0 /\ huff.freq[2] = 0 /\ huff.freq[66] = 3

\* the frequency table, once read, has exactly one nonzero entry
NonzeroLeaves == {n \in 0..MaxLeaf : huff.freq[n + 1] # 0}
Degenerate ==
    /\ pc = "huffman" /\ huff.pc \in {"merge", "symbol", "walk"}
    /\ Cardinality(NonzeroLeaves) = 1

\* C5 as stated: with exactly one nonzero frequency in the table,
\* unpack_huffman never reads a bit, whatever the decoded size is.
C5_DegenerateNoBits == Degenerate => huff.bits_read = 0

\* C5: with exactly one nonzero frequency in the table the 255 leaves of
\* frequency zero are still in the tree: the leaf of the one value is the
\* right child of the root 0x1FE, every decoded byte costs at least one call
\* of get_next_bit, and no bit is read only when the decoded size is 0.
C5_DegenerateReadsBits ==
    Degenerate =>
        /\ huff.bits_read >= huff.dst
        /\ huff.pc = "walk" /\ huff.node <= MaxLeaf => huff.bits_read > huff.dst
        /\ TableBuilt => NonzeroLeaves = {huff.right[RootNode + 1]}
        /\ huff.status = "done" => (huff.bits_read = 0 <=> huff.huffman_unpacked = 0)
        /\ huff.status = "raise" /\ huff.pc = "walk" => huff.pos = Len(huff.stream)

\* a stream with a degenerate table has been decoded to two bytes, the one
\* value twice, with one bit each
C5_Witness ==
    /\ Degenerate
    /\ huff.status = "done"
    /\ huff.huffman_unpacked = 2
    /\ huff.bits_read = 2
    /\ huff.unpacked = <<65, 65>>

(***************************************************************************)
(* The streams unpack_lz77 is run on: the escape value at byte 8, the      *)
(* packed bytes from byte 12 on, made of literals, escaped literals and    *)
(* back-references (escape, offset, count), some cut short; the output     *)
(* buffer is fresh or holds an earlier channel.                            *)
(***************************************************************************)
MaxOps == 2            \* literals and references in a packed stream

Escapes == {0, 1, 2, 200}

LzTokens(special) ==
    { <<7>>, <<special, 1, 5>>, <<special, 2, 5>>, <<special, special>>,
      <<special, 3, 2>>, <<special, 1, 0>>, <<special>> }

LzBodies(special) ==
    { Concat(ts) : ts \in UNION { [1..n -> LzTokens(special)] : n \in 0..MaxOps } }

LzStreams ==
    UNION { { Zeros(8) \o <<special>> \o Zeros(3) \o body : body \in LzBodies(special) } :
                special \in Escapes }
    \cup { Zeros(n) : n \in {0, 8} }

ChannelBuffers == { Zeros(7), <<11, 12, 13, 14, 15, 16>> }

InitLz ==
    /\ pc = "lz"
    /\ result = "running"
    /\ lz \in { NewLz(input_data, output) :
                    input_data \in LzStreams, output \in ChannelBuffers }
    /\ MetaAndPacIdle /\ HuffIdle /\ GrdIdle /\ ScriptIdle

NextLz == ReadEscapeByte \/ FetchByte \/ CopyByte

SpecLz == InitLz /\ [][NextLz]_vars

\* a back-reference of count 5 has been read with at least one byte emitted
\* and at least five bytes free
ReferenceOfFive ==
    /\ pc = "lz" /\ lz.last = "reference"
    /\ lz.count = 5
    /\ lz.ref_dst >= 1
    /\ lz.ref_dst + 5 <= Len(lz.output)

\* the copy goes on without an exception, writes the byte before the
\* reference, and ends five bytes further
ReplicatesPrecedingByte ==
    /\ lz.pc = "copy"
       => /\ lz.status = "running"
          /\ lz.i < 5
          /\ lz.dst = lz.ref_dst + lz.i
          /\ \A k \in 1..lz.i : lz.output[lz.ref_dst + k] = lz.output[lz.ref_dst]
    /\ lz.pc = "loop"
       => /\ lz.dst = lz.ref_dst + 5
          /\ \A k \in 1..5 : lz.output[lz.ref_dst + k] = lz.output[lz.ref_dst]

\* C6 as stated: a back-reference (escape byte, offset byte, count byte) with
\* offset 1 and count 5, met after at least one output byte and with five
\* bytes free, makes the next five output bytes equal to the byte before the
\* reference and advances the output position by 5.
C6_OffsetByteOne ==
    (ReferenceOfFive /\ lz.ref_offset = 1) => ReplicatesPrecedingByte

\* C6: the same of a back-reference whose offset is 1 after lines 90-91 took
\* one off an offset byte above the escape value: offset byte 1 under an
\* escape value of 2 or more, offset byte 2 under an escape value of 0 or 1.
C6_EffectiveOffsetOne ==
    (ReferenceOfFive /\ (\/ lz.ref_offset = 1 /\ lz.special >= 2
                         \/ lz.ref_offset = 2 /\ lz.special <= 1))
    => ReplicatesPrecedingByte

\* the literal 7 has been replicated five times over a buffer that held
\* other bytes, by an offset byte 2 under the escape value 0
C6_Witness ==
    /\ ReferenceOfFive /\ lz.pc = "loop"
    /\ lz.ref_offset = 2 /\ lz.special = 0
    /\ lz.ref_dst = 1 /\ lz.dst = 6
    /\ SubSeq(lz.output, 1, 6) = <<7, 7, 7, 7, 7, 7>>
    /\ lz.input_data[13] = 7

(***************************************************************************)
(* The files process_directory is run on.  MkGrd lays an image out as      *)
(* read_grd_metadata expects it: the 32-byte header, then the alpha, red,  *)
(* green and blue streams.  A batch item carries, next to the bytes of the *)
(* file, the planes the file was encoded from (none when it was not        *)
(* encoded from planes); the program reads the bytes only.                 *)
(***************************************************************************)
MaxValue == 2          \* byte values of the red plane of an encoded image

MkGrd(pack, bpp, box, streams) ==
    MkGrdHeader(1, pack, bpp, box,
                <<Len(streams[1]), Len(streams[2]), Len(streams[3]), Len(streams[4])>>)
    \o streams[1] \o streams[2] \o streams[3] \o streams[4]

\* the RLE scheme unpack_rle reads: a literal run, a repeat run for every
\* byte, a zero count and a literal followed by repeat runs, one repeat run
RleLiteral(p) == <<Len(p)>> \o p
RleRepeats(p) == [j \in 1..(2 * Len(p)) |-> IF j % 2 = 1 THEN 129 ELSE p[j \div 2]]
RleMixed(p) == <<0, 1, p[1]>> \o RleRepeats(Tail(p))
RleRun(p) ==
    IF \A k \in 1..Len(p) : p[k] = p[1] THEN <<128 + Len(p), p[1]>> ELSE RleLiteral(p)

RleEncode(p, style) ==
    CASE style = 1 -> RleLiteral(p)
      [] style = 2 -> RleRepeats(p)
      [] style = 3 -> RleMixed(p)
      [] OTHER -> RleRun(p)

Boxes == { <<0, 2, 0, 2>>, <<0, 1, 0, 2>>, <<3, 1, 7, 6>> }
BoxWidth(box) == Abs(box[2] - box[1])
BoxHeight(box) == Abs(box[4] - box[3])

\* the green and the blue plane of an encoded image differ from the red one
\* and from each other at every pixel
GreenOf(p) == [k \in 1..Len(p) |-> p[k] + 10 * k]
BlueOf(p) == [k \in 1..Len(p) |-> p[Len(p) + 1 - k] + 100]

EncodedImages ==
    UNION { { [file |-> MkGrd(1, 24, box,
                              << <<>>, RleEncode(p, style[1]),
                                 RleEncode(GreenOf(p), style[2]),
                                 RleEncode(BlueOf(p), style[3]) >>),
               width |-> BoxWidth(box), height |-> BoxHeight(box),
               planes |-> <<p, GreenOf(p), BlueOf(p)>>] :
                p \in [1..(BoxWidth(box) * BoxHeight(box)) -> 1..MaxValue],
                style \in { <<1, 1, 1>>, <<2, 2, 2>>, <<3, 3, 3>>, <<4, 4, 4>>,
                            <<1, 2, 3>>, <<4, 3, 1>> } } :
            box \in Boxes }

NotEncoded(file) == [file |-> file, width |-> 0, height |-> 0, planes |-> << >>]

\* channel streams of pack type 1 for a 2 x 2 image: a full plane, an empty
\* stream, a run of two bytes, a run whose value byte is past the stream
RleStreams == { <<132, 5>>, <<132, 6>>, << >>, <<130, 7>>, <<132>> }

RleImages ==
    { NotEncoded(MkGrd(1, 24, <<0, 2, 0, 2>>, << <<>>, r, g, b >>)) :
        r \in RleStreams, g \in RleStreams, b \in RleStreams }

AlphaImages ==
    { NotEncoded(MkGrd(1, bpp, <<0, 2, 0, 2>>, << a, <<132, 5>>, g, <<132, 7>> >>)) :
        bpp \in {24, 32}, a \in { <<132, 9>>, <<129, 9>> }, g \in { <<132, 6>>, <<5, 1, 2, 3, 4, 8>> } }

\* the Huffman code of a byte under the table of equal frequencies is its
\* eight bits, highest first
ReverseBits(b) ==
    128 * (b % 2) + 64 * ((b \div 2) % 2) + 32 * ((b \div 4) % 2)
    + 16 * ((b \div 8) % 2) + 8 * ((b \div 16) % 2) + 4 * ((b \div 32) % 2)
    + 2 * ((b \div 64) % 2) + ((b \div 128) % 2)

HuffmanEncode(data) ==
    MkHuffmanStream(Len(data), FreqTable(4), [k \in 1..Len(data) |-> ReverseBits(data[k])])

Lz77Data(special, body) == Zeros(8) \o <<special>> \o Zeros(3) \o body

HuffmanImages ==
    { NotEncoded(MkGrd(161, 24, <<0, 2, 0, 2>>,
                       << <<>>, HuffmanEncode(d), HuffmanEncode(<<132, 6>>), HuffmanEncode(d) >>)) :
        d \in { <<132, 5>>, <<4, 1, 2, 3, 4>>, <<130, 7>>, <<131>> } }
    \cup
    { NotEncoded(MkGrd(162, 24, <<0, 2, 0, 2>>,
                       << <<>>, HuffmanEncode(d), HuffmanEncode(Lz77Data(0, <<7, 8, 0, 3, 2>>)),
                          HuffmanEncode(d) >>)) :
        d \in { Lz77Data(2, <<7, 2, 1, 3>>), Lz77Data(0, <<7, 0, 1, 3>>),
                Lz77Data(0, <<7, 0>>), Zeros(4) } }
    \cup
    { NotEncoded(MkGrd(161, 24, <<0, 2, 0, 2>>,
                       << <<>>, HuffmanEncode(<<132, 5>>), HuffmanEncode(<<132, 6>>),
                          MkHuffmanStream(2, FreqTable(4), <<33>>) >>)) }

\* files read_grd_metadata turns down, and a file too short for it
OtherFiles ==
    { NotEncoded(f) : f \in { MkGrd(2, 24, <<0, 2, 0, 2>>, << <<>>, <<>>, <<>>, <<>> >>),
                              MkGrd(1, 8, <<0, 2, 0, 2>>, << <<>>, <<>>, <<>>, <<>> >>),
                              MkGrd(1, 24, <<0, 2, 0, 2>>, << <<>>, <<132, 5>>, <<>>, <<>> >>)
                                  \o <<0>>,
                              <<1>> } }

Batches ==
    { <<f>> : f \in EncodedImages \cup RleImages \cup AlphaImages \cup HuffmanImages
                    \cup OtherFiles }
    \cup { <<f, g>> : f \in RleImages, g \in RleImages }
    \cup { <<f, g>> : f \in OtherFiles, g \in EncodedImages }

InitGrd ==
    /\ pc = "convert"
    /\ result = "running"
    /\ batch \in Batches
    /\ file_index = 0 /\ reader = << >> /\ saved = << >>
    /\ MetaAndPacIdle /\ HuffIdle /\ LzIdle /\ ScriptIdle

NextGrd ==
    \/ ConvertFile \/ EndWalk \/ UnpackRleChannel \/ UnpackHuffmanChannel
    \/ ReadHuffmanHeader \/ SeedLeaf \/ MergeNodes \/ StartSymbol \/ WalkBit \/ EmitByte
    \/ HuffmanRaised \/ UnpackRleData \/ UnpackLz77Data
    \/ ReadEscapeByte \/ FetchByte \/ CopyByte
    \/ Lz77Raised \/ InterleaveLz77 \/ SaveImage

SpecGrd == InitGrd /\ [][NextGrd]_vars

(***************************************************************************)
(* Properties of GrdReader.unpack.                                         *)
(***************************************************************************)
\* the saved image of an encoded file has every byte of every plane at its
\* place, rows in reverse order, and no alpha plane was unpacked
RoundTrip(image, item) ==
    /\ Len(image.data) = item.width * item.height * 3
    /\ \A x \in 0..(item.width - 1), y \in 0..(item.height - 1), c \in 0..2 :
           image.data[((item.height - 1 - y) * item.width + x) * 3 + c + 1]
               = item.planes[c + 1][y * item.width + x + 1]
    /\ image.unpacked = <<0, 1, 2>>
    /\ image.mode = "RGB"

\* C4: for an image of width W and height H with bpp 24, alpha size 0 and
\* pack type 1 whose red, green and blue planes are RLE-encoded to W*H bytes
\* each, unpack returns an output buffer of W*H*3 bytes with
\* output[((H-1-y)*W + x)*3 + c] the byte y*W + x of plane c, and reads and
\* writes no alpha plane.
C4_RleRoundTrip ==
    pc \in {"convert", "channel"} =>
        /\ \A s \in 1..Len(saved) :
               batch[saved[s].file].planes # << >>
               => RoundTrip(saved[s], batch[saved[s].file])
        /\ \A k \in 1..Len(batch) :
               (batch[k].planes # << >> /\ (k <= file_index \/ result = "done"))
               => \E s \in 1..Len(saved) : saved[s].file = k
        /\ (file_index < Len(batch) /\ batch[file_index + 1].planes # << >>)
           => /\ result = "running"
              /\ reader # << >> => 3 \notin {reader.calls[n].dst : n \in 1..Len(reader.calls)}

\* a 2 x 2 image whose planes differ in every row has been unpacked from
\* literal and repeat runs and saved with its rows in reverse order
C4_Witness ==
    /\ pc = "convert" /\ Len(saved) = 1 /\ Len(batch) = 1
    /\ batch[1].planes = << <<1, 2, 2, 1>>, <<11, 22, 32, 41>>, <<101, 102, 102, 101>> >>
    /\ batch[1].file[33] = 0 /\ batch[1].file[34] = 1
    /\ saved[1].data = <<2, 32, 102, 1, 41, 101, 1, 11, 101, 2, 22, 102>>

\* the metadata and the calls of unpack_channel that go with the bytes of a
\* batch item
InfoOf(k) == read_grd_metadata(batch[k].file).info
CallOf(k, c) ==
    LET calls == UnpackCalls(InfoOf(k))
    IN calls[CHOOSE n \in 1..Len(calls) : calls[n].dst = c]
RangeOf(k, c) ==
    SubSeq(batch[k].file, CallOf(k, c).src_pos + 1, CallOf(k, c).src_pos + CallOf(k, c).src_size)
ChannelsOf(k) == {UnpackCalls(InfoOf(k))[n].dst : n \in 1..Len(UnpackCalls(InfoOf(k)))}

\* the bytes of channel c in a saved image
OutputOf(image, c) ==
    [n \in 1..(image.width * image.height) |->
        image.data[(n - 1) * (Len(image.data) \div (image.width * image.height)) + c + 1]]

\* C10: unpack decodes alpha (only if bpp is 32 and the alpha size is above
\* 0), red, green, blue in this order, and the output bytes of a channel
\* depend on the channel's own byte range only: two images of the same width,
\* height, bpp and pack type that agree on a channel's byte range have the
\* same output bytes at the channel's positions, short decodes and cut runs
\* included.
C10_ChannelIndependence ==
    /\ \A s \in 1..Len(saved) :
           saved[s].unpacked
             = (IF InfoOf(saved[s].file).BPP = 32 /\ InfoOf(saved[s].file).AlphaSize > 0
                THEN <<3>> ELSE << >>) \o <<0, 1, 2>>
    /\ \A s, t \in 1..Len(saved) :
           LET a == saved[s].file
               b == saved[t].file
           IN (/\ InfoOf(a).Width = InfoOf(b).Width
               /\ InfoOf(a).Height = InfoOf(b).Height
               /\ InfoOf(a).BPP = InfoOf(b).BPP
               /\ InfoOf(a).Format = InfoOf(b).Format)
              => \A c \in ChannelsOf(a) :
                     (/\ CallOf(a, c).src_pos = CallOf(b, c).src_pos
                      /\ RangeOf(a, c) = RangeOf(b, c))
                     => OutputOf(saved[s], c) = OutputOf(saved[t], c)

(***************************************************************************)
(* The entries open_entry is run on: a script payload is a u32 record      *)
(* count and chunks of a u16 size, four more bytes and size - 4 payload    *)
(* bytes, the first chunk being the script mark (size 6, 0x140050).        *)
(***************************************************************************)
MaxRecords == 3        \* record count of a script payload

Chunk(size, body) == LEBytes(size, 2) \o <<0, 0, 0, 0>> \o body

ScriptPayloads ==
    { LEBytes(record_count, 4) \o <<6, 0>> \o LEBytes(1310800, 4) \o <<b, 255 - b>> \o more :
        record_count \in 0..MaxRecords, b \in 0..255,
        more \in { << >>, Chunk(7, <<18, 52, 240>>), Chunk(9, <<18, 52>>),
                   Chunk(3, <<171>>) \o Chunk(5, <<205>>) } }

ScriptEntries ==
    { [view |-> Zeros(offset) \o payload \o Zeros(tail),
       entry |-> [name |-> NameTest, offset |-> offset, size |-> Len(payload), type |-> type]] :
        payload \in ScriptPayloads, offset \in {0, 3}, tail \in {0, 2}, type \in {"script"} }
    \cup
    { [view |-> payload,
       entry |-> [name |-> NameTest, offset |-> 0, size |-> size, type |-> type]] :
        payload \in { <<1, 0, 0, 0, 6, 0, 80, 0, 20, 0, 171, 205>>,
                      <<1, 0, 0, 0, 7, 0, 80, 0, 20, 0, 171, 205>>,
                      <<1, 0, 0, 0, 6, 0, 80, 0>>, <<1, 0, 0, 0, 6>> },
        size \in {5, 8, 12}, type \in {"script", "image", ""} }

InitScript ==
    /\ pc = "extract"
    /\ result = "running"
    /\ \E x \in ScriptEntries : entry_view = x.view /\ script_entry = x.entry
    /\ extracted = << >>
    /\ MetaAndPacIdle /\ HuffIdle /\ LzIdle /\ GrdIdle

NextScript == ExtractEntry \/ ExtractAgain

SpecScript == InitScript /\ [][NextScript]_vars

Payload == read_bytes(entry_view, script_entry.offset, script_entry.size)

\* the two-byte body of the script mark's chunk is transformed when the
\* entry is a script with a record and the chunk is inside the payload
FirstChunkSwapped ==
    /\ script_entry.type = "script"
    /\ Len(Payload) >= 12
    /\ read_uint32(Payload, 0) >= 1
    /\ read_int16(Payload, 4) = 6 /\ read_uint32(Payload, 6) = 1310800

\* C8: the transform byte -> (byte >> 4) | ((byte & 0x0F) << 4) that
\* open_entry applies to the payload bytes of a script is self-inverse:
\* every result is within 0..255 and is the byte with its nibbles
\* exchanged, and extracting the extracted bytes once more gives the
\* original payload.
C8_NibbleSwapInverse ==
    /\ Len(extracted) >= 1
       => /\ Len(extracted[1]) = Len(Payload)
          /\ \A k \in 1..Len(Payload) :
                 /\ extracted[1][k] \in 0..255
                 /\ extracted[1][k]
                      \in {Payload[k], 16 * (Payload[k] % 16) + (Payload[k] \div 16)}
          /\ FirstChunkSwapped
             => \A k \in 11..12 :
                    extracted[1][k] = 16 * (Payload[k] % 16) + (Payload[k] \div 16)
    /\ Len(extracted) = 2 => extracted[2] = Payload

\* the payload byte 0xA7 has become 0x7A and is 0xA7 again
C8_Witness ==
    /\ Len(extracted) = 2
    /\ FirstChunkSwapped
    /\ Payload[11] = 167
    /\ extracted[1][11] = 122
    /\ extracted[2][11] = 167
    /\ Len(Payload) > 12 /\ extracted[1][Len(Payload)] # Payload[Len(Payload)]

=============================================================================
